---- MODULE Spec2Model ----
(***************************************************************************)
(* Golden-file test sessions (src/src/lib.rs).                             *)
(*                                                                         *)
(* A Golden session stages the files a test writes in a temporary          *)
(* directory.  When the session is dropped it either copies the staged     *)
(* files over the golden files (UPDATE_GOLDEN=1) or compares golden and    *)
(* staged content window by window (BYTE_LIMIT bytes at a time), printing  *)
(* a coloured diff of the first window that differs.                       *)
(*                                                                         *)
(* File content is a sequence of bytes.  A byte is written as a string:    *)
(* an ASCII byte as its character, the two bytes of the UTF-8 encoding of  *)
(* U+00E9 as "C3" and "A9".                                                *)
(***************************************************************************)
EXTENDS Integers, Sequences, FiniteSets, TLC

\* ------------------------------------------------------------------ bounds
\* Most paths one session registers (calls of Golden::file).
MaxPaths == 2

\* Most chunks in an alignment process_diffs is run on.
MaxChunks == 4

\* ------------------------------------------------------- program constants
BYTE_LIMIT == 1024

\* --------------------------------------------------------------- sequences
Min(a, b) == IF a <= b THEN a ELSE b

Least(S) == CHOOSE i \in S : \A j \in S : i <= j

Greatest(S) == CHOOSE i \in S : \A j \in S : j <= i

\* s[from..to) with the 0-based offsets of a Rust slice.
Slice(s, from, to) == SubSeq(s, from + 1, to)

\* n bytes "a".
Pad(n) == [i \in 1..n |-> "a"]

\* --------------------------------------------------------- dissimilar::diff
\* Length of the longest common prefix of a and b.
common_prefix(a, b) ==
    LET m == Min(Len(a), Len(b))
        D == {i \in 1..m : a[i] # b[i]}
    IN  IF SubSeq(a, 1, m) = SubSeq(b, 1, m) THEN m ELSE Least(D) - 1

\* Length of the longest common suffix of a and b.
common_suffix(a, b) ==
    LET m == Min(Len(a), Len(b))
        D == {i \in 1..m : a[Len(a) - i + 1] # b[Len(b) - i + 1]}
    IN  IF SubSeq(a, Len(a) - m + 1, Len(a)) = SubSeq(b, Len(b) - m + 1, Len(b))
        THEN m
        ELSE Least(D) - 1

Chunk(op, s) == [op |-> op, s |-> s]

\* The part of x between what x and y have in common at both ends.
Middle(x, y) ==
    Slice(x, common_prefix(x, y),
          Len(x) - common_suffix(Slice(x, common_prefix(x, y), Len(x)),
                                 Slice(y, common_prefix(x, y), Len(y))))

\* An Equal chunk, left out when it is empty.
Common(s) == IF s = <<>> THEN <<>> ELSE <<Chunk("Equal", s)>>

\* The chunks of the edited region between the common prefix and suffix.
compute(m1, m2) ==
    IF m1 = <<>> /\ m2 = <<>> THEN <<>>
    ELSE IF m1 = <<>> THEN <<Chunk("Insert", m2)>>
    ELSE IF m2 = <<>> THEN <<Chunk("Delete", m1)>>
    ELSE <<Chunk("Delete", m1), Chunk("Insert", m2)>>

\* The chunks of two texts that have their first p and their last q bytes in
\* common and differ in between.
Trimmed(text1, text2, p, q) ==
    Common(Slice(text1, 0, p))
    \o compute(Slice(text1, p, Len(text1) - q),
               Slice(text2, p, Len(text2) - q))
    \o Common(Slice(text1, Len(text1) - q, Len(text1)))

\* The chunks of two texts whose common prefix has p bytes: the common
\* suffix is that of what follows the prefix.
Aligned(text1, text2, p) ==
    Trimmed(text1, text2, p,
            common_suffix(Slice(text1, p, Len(text1)),
                          Slice(text2, p, Len(text2))))

\* The alignment of text1 and text2 the diff crate returns for two texts that
\* differ in at most one region (OneRegion below): the common prefix, the
\* deleted text, the inserted text, the common suffix.
diff(text1, text2) == Aligned(text1, text2, common_prefix(text1, text2))

Bytes(s) == {s[i] : i \in 1..Len(s)}

\* An edit that lies between two Equal chunks and could be moved to the left
\* or to the right.
Slides(t, m, p) ==
    /\ m # <<>>
    /\ p > 0
    /\ p + Len(m) < Len(t)
    /\ (m[Len(m)] = t[p] \/ m[1] = t[p + Len(m) + 1])

\* The texts on which diff above is the diff of the crate: the two edited
\* regions share no byte, so that no finer alignment exists, and a lone
\* insertion or deletion cannot be moved along the text around it.
OneRegion(text1, text2) ==
    /\ Bytes(Middle(text1, text2)) \cap Bytes(Middle(text2, text1)) = {}
    /\ Middle(text2, text1) = <<>> =>
         ~Slides(text1, Middle(text1, text2), common_prefix(text1, text2))
    /\ Middle(text1, text2) = <<>> =>
         ~Slides(text2, Middle(text2, text1), common_prefix(text1, text2))

\* ------------------------------------------------------------------ Cursor
\* Cursor::new
NewCursor(s) == [s |-> s, idx |-> 0, line |-> 0, printing |-> FALSE]

\* One print! call: nothing reaches the terminal for an uncoloured empty text.
Emit(color, text) ==
    IF color = "none" /\ text = <<>> THEN <<>>
    ELSE <<[color |-> color, text |-> text]>>

\* Offsets i in 0..l-1 with a newline at s[idx + i].
Newlines(c, l) == {i \in 0..(l - 1) : c.s[c.idx + i + 1] = "\n"}

\* first_newline after the loop of advance: l when the chunk has no newline.
first_newline(c, l) ==
    IF Newlines(c, l) = {} THEN l ELSE Least(Newlines(c, l))

\* line_after that stops at the first newline of the chunk.
line_after_first(c, l) ==
    IF Newlines(c, l) = {} THEN c.line
    ELSE c.idx + Least(Newlines(c, l)) + 1

\* self.line after the loop of advance: just after the last newline.
line_after(c, l) ==
    IF Newlines(c, l) = {} THEN c.line
    ELSE c.idx + Greatest(Newlines(c, l)) + 1

\* The colour of a chunk that is not Equal.
Colour(op) == IF op = "Delete" THEN "red" ELSE "green"

\* What advance prints before its loop: for a chunk that is not Equal, the
\* start of the line if nothing of it is printed yet, then the chunk.
print_diff(c, l, op, print_equal) ==
    IF op # "Equal"
    THEN (IF ~c.printing /\ print_equal
          THEN Emit("none", Slice(c.s, c.line, c.idx)) ELSE <<>>)
         \o Emit(Colour(op), Slice(c.s, c.idx, c.idx + l))
    ELSE <<>>

\* prints_rest without the test of self.printing: every Equal chunk echoed.
prints_rest_any_line(c, op, print_equal) == op = "Equal" /\ print_equal

\* Whether advance prints the rest of the line after its loop.
prints_rest(c, op, print_equal) == op = "Equal" /\ c.printing /\ print_equal

\* print_rest that does not stop at the end of the line: the whole chunk.
print_rest_whole(c, l, op, print_equal, fnl) ==
    IF prints_rest(c, op, print_equal)
    THEN Emit("none", Slice(c.s, c.idx, c.idx + l))
    ELSE <<>>

\* What advance prints after its loop: an Equal chunk up to the end of its
\* first line, when the line has a difference printed.
print_rest(c, l, op, print_equal, fnl) ==
    IF prints_rest(c, op, print_equal)
    THEN Emit("none", Slice(c.s, c.idx,
                            IF fnl = l THEN c.idx + l ELSE c.idx + fnl + 1))
    ELSE <<>>

\* self.printing when advance returns.
printing_after(c, l, op, print_equal, fnl) ==
    IF op # "Equal" THEN TRUE
    ELSE IF prints_rest(c, op, print_equal) /\ fnl # l THEN FALSE
    ELSE c.printing

\* Cursor::advance: the cursor afterwards and what the call printed.
advance(c, l, op, print_equal) ==
    [cur |-> [s |-> c.s,
              idx |-> c.idx + l,
              line |-> line_after(c, l),
              printing |-> printing_after(c, l, op, print_equal,
                                          first_newline(c, l))],
     out |-> print_diff(c, l, op, print_equal)
             \o print_rest(c, l, op, print_equal, first_newline(c, l))]

\* One slice of self.s that advance prints: self.s[from..to] in a colour.
Span(color, from, to) == <<[color |-> color, from |-> from, to |-> to]>>

\* The slices of self.s that the print! calls of advance show, in the order
\* of the calls: the start of the line and the chunk for a chunk that is not
\* Equal, the rest of the line for an Equal chunk.
spans(c, l, op, print_equal, fnl) ==
    (IF op # "Equal" /\ ~c.printing /\ print_equal
     THEN Span("none", c.line, c.idx) ELSE <<>>)
    \o (IF op # "Equal" THEN Span(Colour(op), c.idx, c.idx + l) ELSE <<>>)
    \o (IF prints_rest(c, op, print_equal)
        THEN Span("none", c.idx,
                  IF fnl = l THEN c.idx + l ELSE c.idx + fnl + 1)
        ELSE <<>>)

\* ----------------------------------------------------------- process_diffs
\* The loop state of Golden::process_diffs before any chunk is applied.
StartDiffs(text1, text2) ==
    [old |-> NewCursor(text1), new |-> NewCursor(text2),
     okay_count |-> 0, out |-> <<>>]

\* The arm of the match for an Equal chunk, o and n being the two advances.
EqualArm(st, o, n) ==
    [old |-> o.cur, new |-> n.cur, okay_count |-> st.okay_count + 1,
     out |-> st.out \o o.out \o n.out]

\* The arm for a Delete chunk.
DeleteArm(st, o) == [st EXCEPT !.old = o.cur, !.out = st.out \o o.out]

\* The arm for an Insert chunk.
InsertArm(st, n) == [st EXCEPT !.new = n.cur, !.out = st.out \o n.out]

\* ApplyChunk that lets the cursor of the new text echo Equal chunks too.
ApplyChunk_echo_both(st, chunk) ==
    IF chunk.op = "Equal"
    THEN EqualArm(st, advance(st.old, Len(chunk.s), "Equal", TRUE),
                  advance(st.new, Len(chunk.s), "Equal", TRUE))
    ELSE IF chunk.op = "Delete"
    THEN DeleteArm(st, advance(st.old, Len(chunk.s), "Delete", TRUE))
    ELSE InsertArm(st, advance(st.new, Len(chunk.s), "Insert", FALSE))

\* One iteration of the loop over the chunks: the match on the chunk kind.
ApplyChunk(st, chunk) ==
    IF chunk.op = "Equal"
    THEN EqualArm(st, advance(st.old, Len(chunk.s), "Equal", TRUE),
                  advance(st.new, Len(chunk.s), "Equal", FALSE))
    ELSE IF chunk.op = "Delete"
    THEN DeleteArm(st, advance(st.old, Len(chunk.s), "Delete", TRUE))
    ELSE InsertArm(st, advance(st.new, Len(chunk.s), "Insert", FALSE))

RECURSIVE ApplyChunks(_, _, _)
ApplyChunks(st, cs, i) ==
    IF i > Len(cs) THEN st
    ELSE ApplyChunks(ApplyChunk(st, cs[i]), cs, i + 1)

\* num with okay_count never counted.
NonEqualAll(cs, okay) == Len(cs)

\* num: the chunks that were not counted as Equal.
NonEqual(cs, okay) == Len(cs) - okay

\* The println!() after a difference.
Trailer(n) ==
    IF n # 0 THEN <<[color |-> "none", text |-> <<"\n">>]>> ELSE <<>>

\* What process_diffs returns and has printed once the loop has ended in st.
Returned(cs, st) ==
    [num |-> NonEqual(cs, st.okay_count),
     out |-> st.out \o Trailer(NonEqual(cs, st.okay_count))]

AppliedAll(text1, text2, cs) ==
    Returned(cs, ApplyChunks(StartDiffs(text1, text2), cs, 1))

\* Golden::process_diffs: the number of chunks that are not Equal, and what
\* was printed.
process_diffs(text1, text2) == AppliedAll(text1, text2, diff(text1, text2))

\* ------------------------------------------------------------ file systems
\* The relative paths a test asks for: a plain file, a gzip file, and a file
\* in a subdirectory.
Paths == {"a.txt", "b.gz", "d/c.txt"}

\* The directory a relative path lies in, "." being the root itself.
Parent(p) == IF p = "d/c.txt" THEN "d" ELSE "."

Dirs == {".", "d"}

\* p.extension() == "gz"
IsGz(p) == p = "b.gz"

\* No file at a path.
NoFile == [exists |-> FALSE, bytes |-> <<>>]

FileOf(bytes) == [exists |-> TRUE, bytes |-> bytes]

EmptyFs == [p \in Paths |-> NoFile]

\* The data a test compresses that is not empty: one window and a byte.
Long == Pad(BYTE_LIMIT) \o <<"b">>

\* The data of which the model has the compressed bytes.
Deflatable == {<<>>, Long}

\* The ten bytes of the member header GzEncoder writes.
GzHeader == <<"1f", "8b", "08", "00", "00", "00", "00", "00", "02", "ff">>

\* The bytes of the deflate block of Long after its first byte.
LongBlock ==
    <<"c0", "81", "00", "00", "00", "00", "83", "30", "d6", "ee", "0f", "71",
      "90", "1a", "24", "b1", "da", "01">>

\* The deflate block GzEncoder at Compression::best() writes for data: the
\* last block of the stream when final, else a block that others follow.
\* The two differ in their first byte.
Deflated(data, final) ==
    IF data = <<>> THEN <<IF final THEN "03" ELSE "02", "00">>
    ELSE <<IF final THEN "ed" ELSE "ec">> \o LongBlock

\* The marker a flush of the encoder puts after the block it has written.
Sync == <<"00", "00", "ff", "ff">>

\* The trailer of a member: CRC32 and length of its data.
Sums(data) ==
    IF data = <<>>
    THEN <<"00", "00", "00", "00", "00", "00", "00", "00">>
    ELSE <<"46", "b1", "7f", "c3", "01", "04", "00", "00">>

\* GzEncoder written to and dropped: the member header, the data in one
\* final block, the trailer.
GzEncode(data) == GzHeader \o Deflated(data, TRUE) \o Sums(data)

\* Whether the bytes of raw from place pos on begin with seg.
StartsWith(raw, pos, seg) ==
    /\ pos + Len(seg) - 1 <= Len(raw)
    /\ SubSeq(raw, pos, pos + Len(seg) - 1) = seg

\* The data whose block, final or not, lies at place pos of raw.
BlocksAt(raw, pos, final) ==
    {d \in Deflatable : StartsWith(raw, pos, Deflated(d, final))}

\* The end of a member whose last block was read up to place pos and held
\* the last of data: ok when the trailer that follows is that of data.
\* What follows the trailer is not read.
MemberEnd(raw, pos, data) ==
    [ok |-> data \in Deflatable /\ StartsWith(raw, pos, Sums(data)),
     bytes |-> data]

RECURSIVE Inflate(_, _, _)

\* The decoder has read block d of the stream, final or not.
Inflated(raw, pos, acc, d, final) ==
    IF final
    THEN MemberEnd(raw, pos + Len(Deflated(d, TRUE)), acc \o d)
    ELSE Inflate(raw, pos + Len(Deflated(d, FALSE)), acc \o d)

\* The decoder at place pos of raw, acc being the data it has delivered: it
\* reads blocks and flush markers up to a final block, and fails where the
\* bytes are none of these or end.
Inflate(raw, pos, acc) ==
    IF BlocksAt(raw, pos, FALSE) # {}
    THEN Inflated(raw, pos, acc, CHOOSE d \in BlocksAt(raw, pos, FALSE) : TRUE,
                  FALSE)
    ELSE IF StartsWith(raw, pos, Sync)
    THEN Inflate(raw, pos + Len(Sync), acc)
    ELSE IF BlocksAt(raw, pos, TRUE) # {}
    THEN Inflated(raw, pos, acc, CHOOSE d \in BlocksAt(raw, pos, TRUE) : TRUE,
                  TRUE)
    ELSE [ok |-> FALSE, bytes |-> acc]

\* GzDecoder, a stream over one member: bytes is the data it delivers, ok
\* whether the stream then ends without error.  A file without the header
\* delivers nothing; a member that is cut short, whose blocks were
\* overwritten or whose trailer is not that of its data delivers the data
\* of the blocks that are whole and then fails.
GzDecode(raw) ==
    IF ~StartsWith(raw, 1, GzHeader) THEN [ok |-> FALSE, bytes |-> <<>>]
    ELSE Inflate(raw, Len(GzHeader) + 1, <<>>)

\* What a writer returned by write_tmp sends to its file from the first
\* write to its drop when data is written through it: the data, compressed
\* for "gz".
Written(p, data) == IF IsGz(p) THEN GzEncode(data) ELSE data

\* What the writer has sent to its file once it was flushed: the data, for
\* "gz" the header, the data in a block that is not final, and the marker
\* of the flush.  These are not the first bytes of the stream of a writer
\* that is dropped without a flush.
Flushed(p, data) ==
    IF IsGz(p) THEN GzHeader \o Deflated(data, FALSE) \o Sync ELSE data

\* What the drop of a flushed writer still sends: for "gz" an empty final
\* block and the trailer.
Finish(p, data) ==
    IF IsGz(p) THEN Deflated(<<>>, TRUE) \o Sums(data) ELSE <<>>

\* n zero bytes, "00": the hole a write beyond the end of a file leaves.
Hole(n) == [i \in 1..n |-> "00"]

\* What a file that holds f keeps before offset pos.
Before(f, pos) ==
    IF pos <= Len(f) THEN SubSeq(f, 1, pos) ELSE f \o Hole(pos - Len(f))

\* What a file that holds f keeps from offset pos on.
After(f, pos) == IF pos < Len(f) THEN SubSeq(f, pos + 1, Len(f)) ELSE <<>>

\* A file that holds f after d was written at offset pos through a handle
\* of its own: what lies before and after the written bytes stays.
WriteAt(f, pos, d) ==
    IF d = <<>> THEN f ELSE Before(f, pos) \o d \o After(f, pos + Len(d))

\* The writers by what they have yet to send to their file.  A writer holds
\* what is written through it in its buffer, a test writing less than the
\* buffer takes, until it is flushed or dropped: "fresh" has sent nothing,
\* "begun" is the writer of a "gz" file that was flushed and has the end of
\* its stream to send, "spent" has nothing left to send, and "none" is the
\* call of file that returned no writer.
NoWriter == [state |-> "none", data |-> <<>>]

Fresh == [state |-> "fresh", data |-> <<>>]

Begun(data) == [state |-> "begun", data |-> data]

Spent == [state |-> "spent", data |-> <<>>]

IsOpen(w) == w.state \in {"fresh", "begun"}

\* The writer of p once data was written through it and it was flushed.
AfterFlush(p, data) == IF IsGz(p) THEN Begun(data) ELSE Spent

\* The offset of the handle of writer w: what it has sent to its file.
Sent(p, w) == IF w.state = "begun" THEN Len(Flushed(p, w.data)) ELSE 0

\* What writer w sends to its file when it is dropped, data having been
\* written through it.
Pending(p, w, data) ==
    IF w.state = "begun" THEN Finish(p, data) ELSE Written(p, data)

\* read with a missing file taken for an empty one.
read_or_empty(fs, p) ==
    IF ~fs[p].exists THEN [ok |-> TRUE, bytes |-> <<>>, corrupt |-> FALSE]
    ELSE IF IsGz(p)
    THEN [ok |-> TRUE, bytes |-> GzDecode(fs[p].bytes).bytes,
          corrupt |-> ~GzDecode(fs[p].bytes).ok]
    ELSE [ok |-> TRUE, bytes |-> fs[p].bytes, corrupt |-> FALSE]

\* Golden::read: File::open fails for a missing file; bytes is what the
\* reader will deliver, the file decompressed for "gz", and corrupt whether
\* the reader fails once it has delivered them.
read(fs, p) ==
    IF ~fs[p].exists THEN [ok |-> FALSE, bytes |-> <<>>, corrupt |-> FALSE]
    ELSE IF IsGz(p)
    THEN [ok |-> TRUE, bytes |-> GzDecode(fs[p].bytes).bytes,
          corrupt |-> ~GzDecode(fs[p].bytes).ok]
    ELSE [ok |-> TRUE, bytes |-> fs[p].bytes, corrupt |-> FALSE]

\* -------------------------------------------------------------------- text
\* str::from_utf8 over the bytes of the model: "C3" starts a two-byte
\* character that "A9" completes.
Utf8(w) ==
    \A i \in 1..Len(w) :
        /\ w[i] = "C3" => (i < Len(w) /\ w[i + 1] = "A9")
        /\ w[i] = "A9" => (i > 1 /\ w[i - 1] = "C3")

\* Take with a limit that is one byte too large.
Take_over(bytes) == Slice(bytes, 0, Min(BYTE_LIMIT + 1, Len(bytes)))

\* reader.take(BYTE_LIMIT).read_to_string(..): the bytes taken off the
\* stream, and whether they are text.
Take(bytes) == Slice(bytes, 0, Min(BYTE_LIMIT, Len(bytes)))

Rest(bytes) == Slice(bytes, Min(BYTE_LIMIT, Len(bytes)), Len(bytes))

\* Whether read_to_string on reader r limited to BYTE_LIMIT bytes fails: the
\* window reaches the end of a stream that ends with an error, or the bytes
\* taken are not text.
ReadFails(r) ==
    \/ r.corrupt /\ Len(r.bytes) < BYTE_LIMIT
    \/ ~Utf8(Take(r.bytes))

\* Reader r after a window has been taken off it.
Remaining(r) == [r EXCEPT !.bytes = Rest(r.bytes)]

\* ------------------------------------------------------------------ verify
\* One entry of the record of what a finalize did to files and terminal; n
\* is the count a comparison returned, the number of bytes a read took.
Ev(op, side, path, k, n) ==
    [op |-> op, side |-> side, path |-> path, k |-> k, num |-> n]

\* The outcome of a finalize.  kind: "ok", "open" (File::open failed),
\* "read" (read_to_string failed), "mismatch" (the eyre! of verify),
\* "copy" (fs::copy failed); i, side and k: the path number, the side and the
\* window it ended at.  msg_path and msg_num are what the error message
\* names: only the mismatch message names a path and a count.
Outcome(kind, i, side, k, msg_path, msg_num, log, out) ==
    [kind |-> kind, i |-> i, side |-> side, k |-> k,
     msg_path |-> msg_path, msg_num |-> msg_num, log |-> log, out |-> out]

\* An outcome without the copy of what was printed.
Ended(o) == [f \in DOMAIN o \ {"out"} |-> o[f]]

RECURSIVE VerifyWindows(_, _, _, _, _, _, _)

\* The end of one iteration of the loop of verify: d is what process_diffs
\* returned for window k, log the record with the two reads.
Compared(ps, i, g, a, k, log, out, d) ==
    IF d.num # 0
    THEN Outcome("mismatch", i, "", k, ps[i], d.num,
                 Append(log, Ev("compare", "", ps[i], k, d.num)), out \o d.out)
    ELSE VerifyWindows(ps, i, Remaining(g), Remaining(a), k + 1,
                       Append(log, Ev("compare", "", ps[i], k, d.num)),
                       out \o d.out)

\* The two reads of window k, as the record has them.
Reads(ps, i, g, a, k) ==
    <<Ev("read", "golden", ps[i], k, Len(Take(g.bytes))),
      Ev("read", "tmp", ps[i], k, Len(Take(a.bytes)))>>

\* The loop of verify over the windows of path number i, from window k on,
\* with g and a the two readers and what they have left.
VerifyWindows(ps, i, g, a, k, log, out) ==
    IF ReadFails(g)
    THEN Outcome("read", i, "golden", k, "", 0,
                 Append(log, Ev("read", "golden", ps[i], k,
                                Len(Take(g.bytes)))),
                 out)
    ELSE IF ReadFails(a)
    THEN Outcome("read", i, "tmp", k, "", 0,
                 log \o Reads(ps, i, g, a, k), out)
    ELSE IF Take(g.bytes) = <<>> /\ Take(a.bytes) = <<>>
    THEN Outcome("ok", i, "", k, "", 0, log \o Reads(ps, i, g, a, k), out)
    ELSE Compared(ps, i, g, a, k, log \o Reads(ps, i, g, a, k), out,
                  process_diffs(Take(g.bytes), Take(a.bytes)))

RECURSIVE VerifyFrom(_, _, _, _, _, _)

\* Windowed that goes on to the next path whatever the outcome of this one.
Windowed_no_stop(gfs, tfs, ps, i, w) ==
    VerifyFrom(gfs, tfs, ps, i + 1, w.log, w.out)

\* The end of one iteration of the loop of verify over the paths: w is the
\* outcome of the windows of path number i.
Windowed(gfs, tfs, ps, i, w) ==
    IF w.kind # "ok" THEN w
    ELSE VerifyFrom(gfs, tfs, ps, i + 1, w.log, w.out)

\* One iteration of the loop over the paths, g and a being what Self::read
\* returned for the golden and the staged file.
Opened(gfs, tfs, ps, i, log, out, g, a) ==
    IF ~g.ok
    THEN Outcome("open", i, "golden", 0, "", 0,
                 Append(log, Ev("open", "golden", ps[i], 0, 0)), out)
    ELSE IF ~a.ok
    THEN Outcome("open", i, "tmp", 0, "", 0,
                 log \o <<Ev("open", "golden", ps[i], 0, 0),
                          Ev("open", "tmp", ps[i], 0, 0)>>, out)
    ELSE Windowed(gfs, tfs, ps, i,
                  VerifyWindows(ps, i, g, a, 1,
                                log \o <<Ev("open", "golden", ps[i], 0, 0),
                                         Ev("open", "tmp", ps[i], 0, 0)>>,
                                out))

\* Golden::verify from path number i on.
VerifyFrom(gfs, tfs, ps, i, log, out) ==
    IF i > Len(ps) THEN Outcome("ok", 0, "", 0, "", 0, log, out)
    ELSE Opened(gfs, tfs, ps, i, log, out, read(gfs, ps[i]), read(tfs, ps[i]))

verify(gfs, tfs, ps) == VerifyFrom(gfs, tfs, ps, 1, <<>>, <<>>)

\* ------------------------------------------------------------------ update
\* fs::copy(tmp/p, golden/p): the source must exist and so must the
\* directory of the destination; the destination is created or truncated.
CanCopy(gdirs, tfs, p) == tfs[p].exists /\ Parent(p) \in gdirs

\* A copy that makes the golden files those of the staging directory, the
\* golden files of paths that are not staged lost.
copy_mirror(gfs, tfs, p) == [q \in Paths |-> tfs[q]]

\* A copy that appends to the destination instead of truncating it.
copy_append(gfs, tfs, p) ==
    [gfs EXCEPT ![p] = FileOf(gfs[p].bytes \o tfs[p].bytes)]

\* The golden files after fs::copy(tmp/p, golden/p) succeeded.
copy(gfs, tfs, p) == [gfs EXCEPT ![p] = tfs[p]]

\* Golden::update from path number i on: the outcome and the golden files.
RECURSIVE UpdateFrom(_, _, _, _, _, _)
UpdateFrom(gdirs, gfs, tfs, ps, i, log) ==
    IF i > Len(ps)
    THEN [res |-> Outcome("ok", 0, "", 0, "", 0, log, <<>>), golden |-> gfs]
    ELSE IF ~CanCopy(gdirs, tfs, ps[i])
    THEN [res |-> Outcome("copy", i, "", 0, "", 0,
                          Append(log, Ev("copy", "", ps[i], 0, 0)), <<>>),
          golden |-> gfs]
    ELSE UpdateFrom(gdirs, copy(gfs, tfs, ps[i]), tfs, ps, i + 1,
                    Append(log, Ev("copy", "", ps[i], 0, 0)))

update(gdirs, gfs, tfs, ps) == UpdateFrom(gdirs, gfs, tfs, ps, 1, <<>>)

\* ------------------------------------------------------------------- state
VARIABLES
    env,           \* UPDATE_GOLDEN of the test process: {} when unset, else
                   \* the set of its value
    golden_dirs,   \* the directories that exist at and under the golden root
    golden,        \* the files under the golden root, by relative path
    phase,         \* "idle": no session yet, "active", "done": dropped
    paths,         \* Golden.paths
    tmp_dir,       \* whether the directory of Golden.tmp exists
    tmp,           \* the files under Golden.tmp, by relative path
    panicking,     \* thread::panicking()
    writers,       \* the writers Golden::file returned, one for each path
                   \* of Golden.paths
    created,       \* what the last call of file returned: "none", "ok", "err"
    last,          \* what the drop of the session did and how it ended
    printed,       \* what has been printed to the terminal
    golden_before, \* the golden files when the drop began
    staged,        \* the staged files when the drop began
    texts,         \* process_diffs alone: its two arguments
    chunks,        \* process_diffs alone: the chunks of diff
    ci,            \* process_diffs alone: the number of chunks applied
    old,           \* process_diffs alone: the cursor over the old text
    new,           \* process_diffs alone: the cursor over the new text
    okay_count,    \* process_diffs alone: its counter of Equal chunks
    num            \* process_diffs alone: the value returned, -1 before

vars == <<env, golden_dirs, golden, phase, paths, tmp_dir, tmp, panicking,
          writers, created, last, printed, golden_before, staged,
          texts, chunks, ci, old, new, okay_count, num>>

session_vars == <<env, golden_dirs, golden, phase, paths, tmp_dir, tmp,
                  panicking, writers, created, last, golden_before, staged>>

diff_vars == <<texts, chunks, ci, old, new, okay_count, num>>

\* The values UPDATE_GOLDEN takes.
EnvValues == {{}, {"1"}, {"0"}}

\* What tests write into their files: nothing, one window exactly, one
\* window and a byte, and a two-byte character across the window boundary.
Contents ==
    { <<>>,
      Pad(BYTE_LIMIT),
      Pad(BYTE_LIMIT) \o <<"b">>,
      Pad(BYTE_LIMIT - 1) \o <<"C3", "A9">> }

\* What tests write into their compressed files: nothing, and more than
\* one window.
GzContents == Deflatable

ContentsFor(p) == IF IsGz(p) THEN GzContents ELSE Contents

\* File::create(tmp/p): the directory of the file must exist, and the
\* temporary directory is created empty.
CanCreate(p) == tmp_dir /\ Parent(p) = "."

\* The values the variables of a session take.
TypeOK ==
    /\ env \in EnvValues
    /\ golden_dirs \subseteq Dirs
    /\ DOMAIN golden = Paths
    /\ \A p \in Paths : golden[p].exists => Parent(p) \in golden_dirs
    /\ phase \in {"idle", "active", "done"}
    /\ paths \in Seq(Paths)
    /\ Len(paths) <= MaxPaths
    /\ tmp_dir \in BOOLEAN
    /\ tmp_dir <=> phase = "active"
    /\ DOMAIN tmp = Paths
    /\ \A p \in Paths : tmp[p].exists => (tmp_dir /\ Parent(p) = ".")
    /\ panicking \in BOOLEAN
    /\ Len(writers) = (IF phase = "active" THEN Len(paths) ELSE 0)
    /\ \A i \in 1..Len(writers) :
        /\ writers[i].state \in {"none", "fresh", "begun", "spent"}
        /\ writers[i].state = "none" <=> ~CanCreate(paths[i])
        /\ writers[i].state = "begun" =>
              (IsGz(paths[i]) /\ writers[i].data \in GzContents)
    /\ created \in {"none", "ok", "err"}
    /\ last.mode \in {"none", "skipped", "update", "verify"}
    /\ last.res.kind \in {"none", "ok", "open", "read", "mismatch", "copy"}

\* A compressed golden file that is cut short after its data: more than one
\* window of data and no end of it.
CutShort == GzHeader \o Deflated(Long, FALSE) \o Sync

\* The golden files before the first session: none, or in a golden root
\* that exists the one compressed file that is cut short.
GoldenAtStart(dirs) ==
    IF "." \in dirs
    THEN {EmptyFs, [EmptyFs EXCEPT !["b.gz"] = FileOf(CutShort)]}
    ELSE {EmptyFs}

\* Before any drop.
NoDrop == [mode |-> "none", paths |-> <<>>,
           res |-> Ended(Outcome("none", 0, "", 0, "", 0, <<>>, <<>>))]

IdleDiff ==
    /\ texts = <<<<>>, <<>>>>
    /\ chunks = <<>>
    /\ ci = 0
    /\ old = NewCursor(<<>>)
    /\ new = NewCursor(<<>>)
    /\ okay_count = 0
    /\ num = -1

Init ==
    /\ env = {}
    /\ golden_dirs \in {{}, {"."}}
    /\ golden \in GoldenAtStart(golden_dirs)
    /\ phase = "idle"
    /\ paths = <<>>
    /\ tmp_dir = FALSE
    /\ tmp = EmptyFs
    /\ panicking = FALSE
    /\ writers = <<>>
    /\ created = "none"
    /\ last = NoDrop
    /\ printed = <<>>
    /\ golden_before = EmptyFs
    /\ staged = EmptyFs
    /\ IdleDiff

\* ----------------------------------------------------------------- actions
\* A test starts in a process whose UPDATE_GOLDEN is v and calls Golden::new
\* on the golden root: a fresh temporary directory, no paths.
New ==
    /\ phase \in {"idle", "done"}
    /\ \E v \in EnvValues : env' = v
    /\ phase' = "active"
    /\ paths' = <<>>
    /\ tmp_dir' = TRUE
    /\ tmp' = EmptyFs
    /\ panicking' = FALSE
    /\ writers' = <<>>
    /\ created' = "none"
    /\ last' = NoDrop
    /\ printed' = <<>>
    /\ golden_before' = EmptyFs
    /\ staged' = EmptyFs
    /\ UNCHANGED <<golden_dirs, golden>>
    /\ UNCHANGED diff_vars

\* Golden::write_tmp: the path is pushed, then the file is created.
write_tmp(p) == [paths |-> Append(paths, p), ok |-> CanCreate(p)]

\* Golden::file(p): File::create leaves an empty file, one that was there
\* truncated, and the writer returned has sent nothing.
File ==
    /\ phase = "active"
    /\ Len(paths) < MaxPaths
    /\ \E p \in Paths :
        /\ paths' = write_tmp(p).paths
        /\ IF write_tmp(p).ok
           THEN /\ tmp' = [tmp EXCEPT ![p] = FileOf(<<>>)]
                /\ writers' = Append(writers, Fresh)
                /\ created' = "ok"
           ELSE /\ tmp' = tmp
                /\ writers' = Append(writers, NoWriter)
                /\ created' = "err"
    /\ UNCHANGED <<env, golden_dirs, golden, phase, tmp_dir, panicking, last,
                   printed, golden_before, staged>>
    /\ UNCHANGED diff_vars

\* The data written through writer w of p by the time it is dropped.
DataOf(p, w) == IF w.state = "begun" THEN {w.data} ELSE ContentsFor(p)

\* The test has written data through a writer and flushes it: what the
\* buffer holds reaches the file.
Flush ==
    /\ phase = "active"
    /\ \E i \in 1..Len(writers) : \E data \in ContentsFor(paths[i]) :
        /\ writers[i].state = "fresh"
        /\ tmp' = [tmp EXCEPT ![paths[i]] =
                       FileOf(WriteAt(@.bytes, 0, Flushed(paths[i], data)))]
        /\ writers' = [writers EXCEPT ![i] = AfterFlush(paths[i], data)]
    /\ UNCHANGED <<env, golden_dirs, golden, phase, paths, tmp_dir, panicking,
                   created, last, printed, golden_before, staged>>
    /\ UNCHANGED diff_vars

\* The test drops a writer it has written data through: what the writer
\* has not sent yet reaches the file, for "gz" with the end of the stream.
DropWriter ==
    /\ phase = "active"
    /\ \E i \in 1..Len(writers) :
        \E data \in DataOf(paths[i], writers[i]) :
            /\ IsOpen(writers[i])
            /\ tmp' = [tmp EXCEPT ![paths[i]] =
                           FileOf(WriteAt(@.bytes, Sent(paths[i], writers[i]),
                                          Pending(paths[i], writers[i],
                                                  data)))]
            /\ writers' = [writers EXCEPT ![i] = Spent]
    /\ UNCHANGED <<env, golden_dirs, golden, phase, paths, tmp_dir, panicking,
                   created, last, printed, golden_before, staged>>
    /\ UNCHANGED diff_vars

\* What Drop::drop did: the branch it took, the golden files, the outcome.
Did(mode, gfs, res) == [mode |-> mode, golden |-> gfs, res |-> res]

Updated(u) == Did("update", u.golden, u.res)

\* drop without the test of thread::panicking().
drop_unguarded(unwinding, r, gdirs, gfs, tfs, ps) ==
    IF r # {} /\ r = {"1"}
    THEN Updated(update(gdirs, gfs, tfs, ps))
    ELSE Did("verify", gfs, verify(gfs, tfs, ps))

\* drop that updates whenever UPDATE_GOLDEN is set, whatever its value.
drop_if_set(unwinding, r, gdirs, gfs, tfs, ps) ==
    IF unwinding
    THEN Did("skipped", gfs, Outcome("none", 0, "", 0, "", 0, <<>>, <<>>))
    ELSE IF r # {}
    THEN Updated(update(gdirs, gfs, tfs, ps))
    ELSE Did("verify", gfs, verify(gfs, tfs, ps))

\* Drop::drop of Golden: what it does and the golden files it leaves.
drop(unwinding, r, gdirs, gfs, tfs, ps) ==
    IF unwinding
    THEN Did("skipped", gfs, Outcome("none", 0, "", 0, "", 0, <<>>, <<>>))
    ELSE IF r # {} /\ r = {"1"}
    THEN Updated(update(gdirs, gfs, tfs, ps))
    ELSE Did("verify", gfs, verify(gfs, tfs, ps))

\* The state after Drop::drop did d.
Finalized(d) ==
    /\ golden' = d.golden
    /\ last' = [mode |-> d.mode, paths |-> paths, res |-> Ended(d.res)]
    /\ printed' = printed \o d.res.out

\* The session is dropped: Drop::drop runs, then the fields are dropped, and
\* the TempDir removes its directory.  What the writers still open send
\* after that reaches no file of a session.
Dropped(unwinding) ==
    /\ panicking' = unwinding
    /\ Finalized(drop(unwinding, env, golden_dirs, golden, tmp, paths))
    /\ golden_before' = golden
    /\ staged' = tmp
    /\ phase' = "done"
    /\ tmp_dir' = FALSE
    /\ tmp' = EmptyFs
    /\ writers' = <<>>
    /\ UNCHANGED <<env, golden_dirs, paths, created>>
    /\ UNCHANGED diff_vars

\* The session goes out of scope at the end of the test.
Drop ==
    /\ phase = "active"
    /\ Dropped(FALSE)

\* The body of the test panics, and the session is dropped by the unwinding.
PanicDrop ==
    /\ phase = "active"
    /\ Dropped(TRUE)

Next == New \/ File \/ Flush \/ DropWriter \/ Drop \/ PanicDrop

Spec == Init /\ [][Next]_vars


\* ------------------------------------------------------ process_diffs alone
\* Texts process_diffs is called on.
DiffTexts ==
    { <<>>,
      <<"a", "b", "c", "\n">>,
      <<"a", "b", "c", "\n", "d", "e", "f", "\n">>,
      <<"a", "b", "c", "\n", "x", "y", "z", "\n">>,
      <<"a", "b", "c", "\n", "d", "e", "f">>,
      <<"a", "b", "c", "x", "\n", "d", "e", "f", "\n">>,
      <<"l", "i", "n", "e", "1", "\n", "l", "i", "n", "e", "2", "\n",
        "l", "i", "n", "e", "3", "\n">>,
      <<"l", "i", "n", "e", "1", "\n", "l", "i", "n", "e", "T", "W", "O", "\n",
        "l", "i", "n", "e", "3", "\n">>,
      <<"l", "i", "n", "e", "1", "\n", "l", "i", "n", "e", "2", "\n">>,
      <<"l", "i", "n", "e", "1", "\n", "\n", "l", "i", "n", "e", "3", "\n">> }

InitDiffs ==
    /\ env = {}
    /\ golden_dirs = {"."}
    /\ golden = EmptyFs
    /\ phase = "idle"
    /\ paths = <<>>
    /\ tmp_dir = FALSE
    /\ tmp = EmptyFs
    /\ panicking = FALSE
    /\ writers = <<>>
    /\ created = "none"
    /\ last = NoDrop
    /\ printed = <<>>
    /\ golden_before = EmptyFs
    /\ staged = EmptyFs
    /\ texts \in {tt \in DiffTexts \X DiffTexts : OneRegion(tt[1], tt[2])}
    /\ chunks = diff(texts[1], texts[2])
    /\ ci = 0
    /\ old = NewCursor(texts[1])
    /\ new = NewCursor(texts[2])
    /\ okay_count = 0
    /\ num = -1

\* The loop state of process_diffs held in the variables.
LoopState ==
    [old |-> old, new |-> new, okay_count |-> okay_count, out |-> printed]

\* The loop state st becomes that of the variables, one more chunk applied.
Applied(st) ==
    /\ old' = st.old
    /\ new' = st.new
    /\ okay_count' = st.okay_count
    /\ printed' = st.out
    /\ ci' = ci + 1
    /\ UNCHANGED <<texts, chunks, num>>
    /\ UNCHANGED session_vars

\* The next chunk is Equal.
DiffEqual ==
    /\ ci < Len(chunks)
    /\ chunks[ci + 1].op = "Equal"
    /\ Applied(ApplyChunk(LoopState, chunks[ci + 1]))

\* The next chunk is Delete.
DiffDelete ==
    /\ ci < Len(chunks)
    /\ chunks[ci + 1].op = "Delete"
    /\ Applied(ApplyChunk(LoopState, chunks[ci + 1]))

\* The next chunk is Insert.
DiffInsert ==
    /\ ci < Len(chunks)
    /\ chunks[ci + 1].op = "Insert"
    /\ Applied(ApplyChunk(LoopState, chunks[ci + 1]))

\* The loop has ended: process_diffs prints its newline and returns num.
DiffReturn ==
    /\ ci = Len(chunks)
    /\ num = -1
    /\ num' = Returned(chunks, LoopState).num
    /\ printed' = Returned(chunks, LoopState).out
    /\ UNCHANGED <<texts, chunks, ci, old, new, okay_count>>
    /\ UNCHANGED session_vars

NextDiffs == DiffEqual \/ DiffDelete \/ DiffInsert \/ DiffReturn

SpecDiffs == InitDiffs /\ [][NextDiffs]_vars

\* ------------------------------------------ process_diffs on any alignment
\* The texts of the chunks of an alignment: within a line, a line end, and
\* text that spans three lines.
ChunkTexts == { <<"a">>, <<"\n">>, <<"b", "\n", "c", "\n", "d">> }

ChunkOps == {"Equal", "Delete", "Insert"}

\* The chunk sequences diff may return: no chunk is empty and no two chunks
\* of one kind follow each other.
Alignments ==
    {cs \in UNION {[1..n -> [op : ChunkOps, s : ChunkTexts]] :
                      n \in 0..MaxChunks} :
        \A j \in 1..(Len(cs) - 1) : cs[j].op # cs[j + 1].op}

\* The text that the chunks of the kinds in ops make up.
RECURSIVE TextOf(_, _)
TextOf(cs, ops) ==
    IF cs = <<>> THEN <<>>
    ELSE (IF cs[1].op \in ops THEN cs[1].s ELSE <<>>) \o TextOf(Tail(cs), ops)

\* The old text of an alignment: its Equal and Delete chunks.
OldOf(cs) == TextOf(cs, {"Equal", "Delete"})

\* The new text of an alignment: its Equal and Insert chunks.
NewOf(cs) == TextOf(cs, {"Equal", "Insert"})

\* process_diffs is called on two texts of which diff returns some alignment.
InitAligned ==
    /\ env = {}
    /\ golden_dirs = {"."}
    /\ golden = EmptyFs
    /\ phase = "idle"
    /\ paths = <<>>
    /\ tmp_dir = FALSE
    /\ tmp = EmptyFs
    /\ panicking = FALSE
    /\ writers = <<>>
    /\ created = "none"
    /\ last = NoDrop
    /\ printed = <<>>
    /\ golden_before = EmptyFs
    /\ staged = EmptyFs
    /\ chunks \in Alignments
    /\ texts = <<OldOf(chunks), NewOf(chunks)>>
    /\ ci = 0
    /\ old = NewCursor(OldOf(chunks))
    /\ new = NewCursor(NewOf(chunks))
    /\ okay_count = 0
    /\ num = -1

SpecAligned == InitAligned /\ [][NextDiffs]_vars


\* ------------------------------------------------------------------ claims
\* The state just after a session was dropped at the end of its scope.
NormalEnd == phase = "done" /\ ~panicking

VerifyRan == phase = "done" /\ last.mode = "verify"

UpdateRan == phase = "done" /\ last.mode = "update"

Indices == 1..Len(paths)

\* The content of a file as its reader yields it.
Decoded(fs, p) == read(fs, p).bytes

\* A file that is there and that its reader delivers to the end.
Whole(fs, p) == fs[p].exists /\ ~read(fs, p).corrupt

\* Path number i had a golden and a staged file when the drop began, both
\* whole.
BothExist(i) == Whole(golden_before, paths[i]) /\ Whole(staged, paths[i])

\* Path number i had the same content on both sides, or not.
Same(i) ==
    BothExist(i) /\ Decoded(golden_before, paths[i]) = Decoded(staged, paths[i])

Differs(i) ==
    BothExist(i) /\ Decoded(golden_before, paths[i]) # Decoded(staged, paths[i])

\* The windows of a content: window k holds bytes (k-1)*BYTE_LIMIT up to
\* k*BYTE_LIMIT.
WindowCount(b) == (Len(b) + BYTE_LIMIT - 1) \div BYTE_LIMIT

Window(b, k) ==
    Slice(b, Min((k - 1) * BYTE_LIMIT, Len(b)), Min(k * BYTE_LIMIT, Len(b)))

\* The first window in which two different contents differ.
FirstDifferent(g, a) ==
    Least({k \in 1..(WindowCount(g) + WindowCount(a)) :
              Window(g, k) # Window(a, k)})

\* The chunks of an alignment that are not Equal.
Edits(cs) == Cardinality({j \in 1..Len(cs) : cs[j].op # "Equal"})

\* The count the claim expects for path number i: that of the first window
\* in which its two contents differ.
ExpectedCount(i) ==
    Edits(diff(Window(Decoded(golden_before, paths[i]),
                      FirstDifferent(Decoded(golden_before, paths[i]),
                                     Decoded(staged, paths[i]))),
               Window(Decoded(staged, paths[i]),
                      FirstDifferent(Decoded(golden_before, paths[i]),
                                     Decoded(staged, paths[i])))))

\* C1: in verify mode finalize fails whenever the golden and the staged
\* content of a registered path differ in some window; the failure names the
\* first such path (the paths before it being equal) and the number of
\* non-Equal chunks of its first differing window; and finalize succeeds only
\* if every registered path is equal on both sides.
C1_Claim ==
    VerifyRan =>
      /\ (\E i \in Indices : Differs(i)) => last.res.kind # "ok"
      /\ \A i \in Indices :
           (Differs(i) /\ \A j \in 1..(i - 1) : Same(j)) =>
             /\ last.res.kind = "mismatch"
             /\ last.res.msg_path = paths[i]
             /\ last.res.msg_num = ExpectedCount(i)
      /\ last.res.kind = "ok" => \A i \in Indices : Same(i)

\* C2: when the golden and the staged content of every registered path are
\* identical, verify compares every window of a path that is longer than one
\* window, finds no difference in any, and succeeds, wherever the window
\* boundaries fall in the content.
C2_Claim ==
    (VerifyRan /\ \A i \in Indices : Same(i)) =>
      \A i \in Indices :
        Len(Decoded(staged, paths[i])) > BYTE_LIMIT =>
          /\ last.res.kind = "ok"
          /\ \A k \in 1..WindowCount(Decoded(staged, paths[i])) :
               \E e \in 1..Len(last.res.log) :
                 last.res.log[e] = Ev("compare", "", paths[i], k, 0)

\* C3: verify after update round-trips: once a session has promoted its
\* staged files in update mode, each written to its end, a session that
\* stages the identical files on the same paths and finalizes in verify mode
\* succeeds and prints nothing.
C3_Claim ==
    (/\ UpdateRan
     /\ last.res.kind = "ok"
     /\ \A i \in Indices : Whole(staged, paths[i])) =>
      /\ verify(golden, staged, paths).kind = "ok"
      /\ verify(golden, staged, paths).out = <<>>

\* C4: in verify mode a registered path without a golden file makes finalize
\* fail, whatever was staged: verify ends no later than at that path, ends
\* there with an open error on the golden side, and never reads or compares
\* the path.
C4_MissingGolden ==
    VerifyRan =>
      \A i \in Indices :
        ~golden_before[paths[i]].exists =>
          /\ last.res.kind # "ok"
          /\ last.res.i <= i
          /\ last.res.i = i => (last.res.kind = "open" /\ last.res.side = "golden")
          /\ \A e \in 1..Len(last.res.log) :
               last.res.log[e].path = paths[i] =>
                 (last.res.log[e].op = "open" /\ last.res.log[e].side = "golden")

\* A verify that ends with the open error of a path whose staged file is empty.
C4_Witness ==
    /\ VerifyRan
    /\ last.res.kind = "open"
    /\ last.res.side = "golden"
    /\ last.res.i = Len(paths)
    /\ staged[paths[Len(paths)]].exists
    /\ staged[paths[Len(paths)]].bytes = <<>>

\* C5: a session dropped while the thread is panicking skips finalize: it
\* takes neither branch, touches no file, leaves the golden files as they
\* were, prints nothing and raises no failure, and the staging directory is
\* removed all the same.
C5_SkippedWhenPanicking ==
    (phase = "done" /\ panicking) =>
      /\ last.mode = "skipped"
      /\ last.res.kind = "none"
      /\ last.res.log = <<>>
      /\ printed = <<>>
      /\ golden = golden_before
      /\ ~tmp_dir
      /\ tmp = EmptyFs

\* A panicking drop in update mode of a session whose staged file differs
\* from the golden file.
C5_Witness ==
    /\ phase = "done"
    /\ panicking
    /\ env = {"1"}
    /\ \E i \in Indices :
         staged[paths[i]].exists /\ staged[paths[i]] # golden[paths[i]]

\* C6: at a normal scope end the session does exactly one of verify and
\* update: update if UPDATE_GOLDEN is "1", verify for any other value and for
\* an unset variable; every file operation of the finalize belongs to the
\* branch chosen.
C6_OneModeForAll ==
    NormalEnd =>
      /\ last.mode \in {"update", "verify"}
      /\ last.mode = "update" <=> env = {"1"}
      /\ \A e \in 1..Len(last.res.log) :
           (last.res.log[e].op = "copy") <=> (last.mode = "update")
      /\ last.mode = "verify" => golden = golden_before

\* A verify of two paths under a value of UPDATE_GOLDEN other than "1".
C6_Witness ==
    /\ NormalEnd
    /\ env = {"0"}
    /\ last.mode = "verify"
    /\ last.res.kind = "ok"
    /\ Len(paths) = 2
    /\ paths[1] # paths[2]

\* C7: update overwrites: after a successful update the golden file of every
\* registered path is the staged file, whatever the golden file held before.
C7_UpdateOverwrites ==
    (UpdateRan /\ last.res.kind = "ok") =>
      \A i \in Indices :
        /\ golden[paths[i]] = staged[paths[i]]
        /\ Decoded(golden, paths[i]) = Decoded(staged, paths[i])

\* A second update of a path, with a content other than that of the first.
C7_Witness ==
    /\ UpdateRan
    /\ last.res.kind = "ok"
    /\ \E i \in Indices :
         /\ golden_before[paths[i]].exists
         /\ golden_before[paths[i]].bytes # <<>>
         /\ staged[paths[i]].bytes # <<>>
         /\ golden_before[paths[i]] # staged[paths[i]]

\* C8: in update mode finalize creates the missing directories of the golden
\* file of a registered path, so that the copy of its staged file succeeds
\* and the golden file exists afterwards.
C8_Claim ==
    (UpdateRan /\ ~panicking) =>
      \A i \in Indices :
        (staged[paths[i]].exists /\ Parent(paths[i]) \notin golden_dirs) =>
          (last.res.kind = "ok" /\ golden[paths[i]].exists)

\* C9: file(p) for a path in a directory the staging directory does not have
\* yet creates the directory and returns a writer, and the staged file
\* exists; so does a repeated request for a path.
C9_Claim ==
    (phase = "active" /\ paths # <<>>) =>
      (created = "ok" /\ tmp[paths[Len(paths)]].exists)

\* The two edited regions of the arguments of process_diffs are both not
\* empty: a text was replaced by another.
Replaced == Middle(texts[1], texts[2]) # <<>> /\ Middle(texts[2], texts[1]) # <<>>

\* C10 as stated: process_diffs returns the number of chunks that are not
\* Equal, and 1 for two texts that differ in one replaced region.
C10_Claim ==
    num # -1 =>
      /\ num = Edits(chunks)
      /\ Replaced => num = 1

\* C10 as amended: process_diffs returns the number of chunks that are not
\* Equal, and 2 for two texts that differ in one replaced region, whose
\* Delete chunk and Insert chunk are counted one each.
C10_Amended ==
    num # -1 =>
      /\ num = Edits(chunks)
      /\ Replaced => num = 2

\* process_diffs has returned for "abc\ndef\n" and "abc\nxyz\n".
C10_Witness ==
    /\ num = 2
    /\ texts = << <<"a", "b", "c", "\n", "d", "e", "f", "\n">>,
                  <<"a", "b", "c", "\n", "x", "y", "z", "\n">> >>

\* ---------------------------------------------- claims about process_diffs
\* What is on the terminal, byte by byte, each byte with its colour.
RECURSIVE Flat(_)
Flat(out) ==
    IF out = <<>> THEN <<>>
    ELSE [j \in 1..Len(out[1].text) |->
              [color |-> out[1].color, byte |-> out[1].text[j]]]
         \o Flat(Tail(out))

Plain(text) == <<[color |-> "none", text |-> text]>>

Red(text) == <<[color |-> "red", text |-> text]>>

Green(text) == <<[color |-> "green", text |-> text]>>

\* process_diffs has returned.
HasReturned == num # -1

\* C11: process_diffs of a text and itself, the empty text included, returns
\* 0 and prints nothing at any point of the call: no context, no coloured
\* text, no trailing newline.
C11_SameTextSilent ==
    texts[1] = texts[2] =>
      /\ printed = <<>>
      /\ HasReturned => num = 0

\* process_diffs has returned for a text of three lines and itself.
C11_Witness ==
    /\ HasReturned
    /\ texts[1] = texts[2]
    /\ Cardinality({i \in 1..Len(texts[1]) : texts[1][i] = "\n"}) = 3
    /\ ci = 1

Line1 == <<"l", "i", "n", "e", "1", "\n">>

Line3 == <<"l", "i", "n", "e", "3", "\n">>

GoldenLines == Line1 \o <<"l", "i", "n", "e", "2", "\n">> \o Line3

StagedLines == Line1 \o <<"l", "i", "n", "e", "T", "W", "O", "\n">> \o Line3

\* process_diffs has returned for "line1\nline2\nline3\n" and
\* "line1\nlineTWO\nline3\n".
LinesCompared == HasReturned /\ texts = <<GoldenLines, StagedLines>>

\* C12 as stated: for "line1\nline2\nline3\n" and "line1\nlineTWO\nline3\n"
\* the terminal shows, in order, "line1\n" uncoloured, "line2" as deleted,
\* "lineTWO" as inserted and "\nline3\n" uncoloured, each shared byte once
\* (with or without the newline that ends the report).
C12_Claim ==
    LinesCompared =>
      \/ Flat(printed) =
           Flat(Plain(Line1) \o Red(<<"l", "i", "n", "e", "2">>)
                \o Green(<<"l", "i", "n", "e", "T", "W", "O">>)
                \o Plain(<<"\n">> \o Line3))
      \/ Flat(printed) =
           Flat(Plain(Line1) \o Red(<<"l", "i", "n", "e", "2">>)
                \o Green(<<"l", "i", "n", "e", "T", "W", "O">>)
                \o Plain(<<"\n">> \o Line3) \o Plain(<<"\n">>))

\* C12 as amended: for these two texts the alignment is Equal "line1\nline",
\* Delete "2", Insert "TWO", Equal "\nline3\n", and the terminal shows only
\* the line that changed: its start "line" uncoloured, "2" as deleted, "TWO"
\* as inserted, the newline that ends the line, and the newline that ends
\* the report; "line1\n" and "line3\n" are not shown.
C12_Amended ==
    LinesCompared =>
      /\ chunks = <<Chunk("Equal", Line1 \o <<"l", "i", "n", "e">>),
                    Chunk("Delete", <<"2">>),
                    Chunk("Insert", <<"T", "W", "O">>),
                    Chunk("Equal", <<"\n">> \o Line3)>>
      /\ printed = Plain(<<"l", "i", "n", "e">>) \o Red(<<"2">>)
                   \o Green(<<"T", "W", "O">>) \o Plain(<<"\n">>)
                   \o Plain(<<"\n">>)

\* process_diffs has returned 2 for the two texts, all four chunks applied.
C12_Witness ==
    /\ LinesCompared
    /\ ci = 4
    /\ num = 2

\* The chunk applied last is an Insert with no Delete before it on its line,
\* and process_diffs is still in its loop.
InsertFirstOnLine ==
    /\ ~HasReturned
    /\ ci > 0
    /\ chunks[ci].op = "Insert"
    /\ ci > 1 => chunks[ci - 1].op = "Equal"

\* The start of the line of the new text that the inserted text lies in.
LineStartOf(s, idx) ==
    IF {i \in 1..idx : s[i] = "\n"} = {} THEN 0
    ELSE Greatest({i \in 1..idx : s[i] = "\n"})

\* The end of the line of s that offset idx lies in, its newline included.
LineEndOf(s, idx) ==
    IF {i \in (idx + 1)..Len(s) : s[i] = "\n"} = {} THEN Len(s)
    ELSE Least({i \in (idx + 1)..Len(s) : s[i] = "\n"})

\* C13: an Insert chunk is applied to the cursor of the new text with
\* printing enabled: when it is the first chunk on its line that is not
\* Equal, the terminal shows the start of the line before the inserted text,
\* and the Equal chunk after it shows the rest of the line up to its newline.
C13_Claim ==
    /\ InsertFirstOnLine =>
         Flat(printed) =
           Flat(Plain(Slice(new.s,
                            LineStartOf(new.s, new.idx - Len(chunks[ci].s)),
                            new.idx - Len(chunks[ci].s)))
                \o Green(chunks[ci].s))
    /\ (ci = 3 /\ chunks[2].op = "Insert" /\ chunks[1].op = "Equal"
        /\ ~HasReturned) =>
         Flat(printed) =
           Flat(Plain(Slice(new.s,
                            LineStartOf(new.s, Len(chunks[1].s)),
                            Len(chunks[1].s)))
                \o Green(chunks[2].s)
                \o Plain(Slice(new.s, Len(chunks[1].s) + Len(chunks[2].s),
                               LineEndOf(new.s, Len(chunks[1].s)
                                                + Len(chunks[2].s)))))

\* ------------------------------------------------ claims about the session
\* The record of what the finalize did, in the order it did it.
Log == last.res.log

IsOpenGolden(e) == e.op = "open" /\ e.side = "golden"

\* The number of the registered path that entry e of the record belongs to:
\* verify begins each path by opening its golden file.
PathNo(e) == Cardinality({f \in 1..e : IsOpenGolden(Log[f])})

\* The place of an entry in the course of one path: the two opens, then
\* window by window the golden read, the staged read and the comparison.
Rank(ev) ==
    IF ev.op = "open" THEN (IF ev.side = "golden" THEN 0 ELSE 1)
    ELSE IF ev.op = "read" THEN 3 * ev.k + (IF ev.side = "golden" THEN 0 ELSE 1)
    ELSE 3 * ev.k + 2

\* An entry at which verify fails: a comparison that found differences.
FoundDifference(ev) == ev.op = "compare" /\ ev.num # 0

\* The entry a failed verify ended at, for each kind of failure.
EndsWith(kind, side, ev) ==
    \/ kind = "mismatch" /\ FoundDifference(ev)
    \/ kind = "open" /\ ev.op = "open" /\ ev.side = side
    \/ kind = "read" /\ ev.op = "read" /\ ev.side = side

\* C14: verify examines the registered paths in registration order, one
\* after the other, and the windows of a path in stream order, and stops at
\* the first failure: the comparison that finds differences, or the open or
\* read that fails, is the last thing it does, no later path is opened, and
\* only the failing window is printed.
C14_OrderedShortCircuit ==
    VerifyRan =>
      /\ \A e \in 1..Len(Log) :
           /\ PathNo(e) \in Indices
           /\ Log[e].path = paths[PathNo(e)]
           /\ Log[e].op \in {"open", "read", "compare"}
           /\ FoundDifference(Log[e]) => e = Len(Log)
      /\ \A e \in 1..(Len(Log) - 1) :
           \/ PathNo(e + 1) = PathNo(e) /\ Rank(Log[e + 1]) > Rank(Log[e])
           \/ PathNo(e + 1) = PathNo(e) + 1 /\ Rank(Log[e + 1]) = 0
      /\ last.res.kind = "ok" => (paths # <<>> => PathNo(Len(Log)) = Len(paths))
      /\ last.res.kind # "ok" =>
           /\ PathNo(Len(Log)) = last.res.i
           /\ EndsWith(last.res.kind, last.res.side, Log[Len(Log)])
      /\ last.res.kind # "mismatch" => printed = <<>>
      /\ last.res.kind = "mismatch" =>
           printed =
             process_diffs(Window(Decoded(golden_before, paths[last.res.i]),
                                  last.res.k),
                           Window(Decoded(staged, paths[last.res.i]),
                                  last.res.k)).out

\* A verify of two paths that found the first to differ in its second
\* window, the second path having a golden and a staged file that do not
\* read the same either.
C14_Witness ==
    /\ VerifyRan
    /\ Len(paths) = 2
    /\ paths[1] # paths[2]
    /\ last.res.kind = "mismatch"
    /\ last.res.i = 1
    /\ last.res.k = 2
    /\ golden_before[paths[2]].exists
    /\ staged[paths[2]].exists
    /\ Decoded(golden_before, paths[2]) # Decoded(staged, paths[2])

\* ------------------------------------------------- claims about the cursors
\* The chunks applied so far.
AppliedChunks == SubSeq(chunks, 1, ci)

\* The chunk applied last moved the cursor of the old text, of the new text.
MovedOld == ci > 0 /\ chunks[ci].op \in {"Equal", "Delete"}

MovedNew == ci > 0 /\ chunks[ci].op \in {"Equal", "Insert"}

NoNewline(s) == \A i \in 1..Len(s) : s[i] # "\n"

\* What the claim says of cursor c once the chunks that make up the text
\* done have been applied to it, the last of them if moved.
CursorInvariant(c, done, moved) ==
    /\ c.idx = Len(done)
    /\ c.line <= c.idx
    /\ c.idx <= Len(c.s)
    /\ c.line = LineStartOf(c.s, c.idx)
    /\ (moved /\ NoNewline(chunks[ci].s)) =>
         c.line = LineStartOf(c.s, c.idx - Len(chunks[ci].s))

\* C15: for every alignment of an old and a new text, after every advance
\* the offset of each cursor has grown by exactly the lengths of the chunks
\* applied to it, line <= idx <= length of the text, line is 0 or the offset
\* just after the last newline before idx, and line is as it was when the
\* chunk applied last has no newline; after the last chunk the two offsets
\* are the lengths of the old and the new text.
C15_CursorInvariants ==
    /\ CursorInvariant(old, OldOf(AppliedChunks), MovedOld)
    /\ CursorInvariant(new, NewOf(AppliedChunks), MovedNew)
    /\ ci = Len(chunks) => (old.idx = Len(texts[1]) /\ new.idx = Len(texts[2]))

\* All chunks applied of an alignment whose Equal chunk spans three lines and
\* is followed by an edit within the last of them.
C15_Witness ==
    /\ ci = Len(chunks)
    /\ ci >= 3
    /\ chunks[1].op = "Equal"
    /\ Len(chunks[1].s) = 5
    /\ chunks[2].op = "Delete"
    /\ chunks[2].s = <<"a">>
    /\ old.line = 4
    /\ old.idx > 5

\* ----------------------------------------- claims about the registered paths
\* C16: after any sequence of calls of file, failed ones included, every
\* registered path has its staged file in the staging directory: a call
\* that returns an error registers nothing.
C16_Claim ==
    phase = "active" => \A i \in Indices : tmp[paths[i]].exists

\* C17: a finalize that fails on one registered path, by a mismatch or by an
\* open, read or copy error, leaves the golden files of all the other
\* registered paths as they were when it began: a copy that fails on path
\* number k leaves the golden files of the k - 1 paths before it unpromoted.
C17_Claim ==
    (NormalEnd /\ last.res.kind # "ok") =>
      \A i \in Indices :
        i # last.res.i => golden[paths[i]] = golden_before[paths[i]]

\* ------------------------------------------------ claims about the printing
\* The cursor of the old text before chunk number j is applied.
OldBefore(j) ==
    ApplyChunks(StartDiffs(texts[1], texts[2]), SubSeq(chunks, 1, j - 1), 1).old

\* The slices of the old text that applying chunk number j shows: none for
\* an Insert, which does not move the cursor of the old text.
OldSpans(j) ==
    IF chunks[j].op = "Insert" THEN <<>>
    ELSE spans(OldBefore(j), Len(chunks[j].s), chunks[j].op, TRUE,
               first_newline(OldBefore(j), Len(chunks[j].s)))

\* The offsets of the old text that lie in slices sp, each with the number
\* j of the chunk and the number of the slice it is shown in.
Offsets(j, sp) ==
    {x \in {j} \X (1..Len(sp)) \X (0..(Len(texts[1]) - 1)) :
        sp[x[2]].from <= x[3] /\ x[3] < sp[x[2]].to}

\* The offsets of the old text that applying chunk number j shows.
OldShown(j) == Offsets(j, OldSpans(j))

\* What the terminal shows of slices sp of text s.
RECURSIVE ShowSpans(_, _)
ShowSpans(s, sp) ==
    IF sp = <<>> THEN <<>>
    ELSE Emit(sp[1].color, Slice(s, sp[1].from, sp[1].to))
         \o ShowSpans(s, Tail(sp))

\* What the terminal shows once chunks 1..j are applied, if Equal text comes
\* from the old text only: the slices of the old text, and the text of each
\* Insert chunk.
RECURSIVE OldSideOnly(_)
OldSideOnly(j) ==
    IF j = 0 THEN <<>>
    ELSE OldSideOnly(j - 1)
         \o (IF chunks[j].op = "Insert" THEN Green(chunks[j].s)
             ELSE ShowSpans(texts[1], OldSpans(j)))

\* C18: during one call of process_diffs on any alignment, Equal text is
\* echoed from the old text only, never from the new text, of which only the
\* text of the Insert chunks is shown; and no byte of the old text is shown
\* twice: the start of the line shown before a difference does not overlap
\* what an earlier Equal or Delete chunk has shown.
C18_NoDoublePrinting ==
    /\ Flat(printed) =
         Flat(OldSideOnly(ci)
              \o (IF HasReturned /\ num # 0 THEN Plain(<<"\n">>) ELSE <<>>))
    /\ \A x, y \in UNION {OldShown(j) : j \in 1..ci} :
         x[3] = y[3] => x = y

\* All chunks applied of an alignment that deletes within a line, inserts,
\* goes on with an Equal chunk over a line end and deletes again within the
\* next line.
C18_Witness ==
    /\ ci = 4
    /\ chunks[1] = Chunk("Delete", <<"a">>)
    /\ chunks[2].op = "Insert"
    /\ chunks[3] = Chunk("Equal", <<"b", "\n", "c", "\n", "d">>)
    /\ chunks[4] = Chunk("Delete", <<"a">>)
    /\ HasReturned

\* ------------------------------------------- claims about the window loop
Max(a, b) == IF a >= b THEN a ELSE b

IsRead(ev, side) == ev.op = "read" /\ ev.side = side

\* Entries g and a of the record are the two reads of one iteration of the
\* window loop of one path.
SameIteration(g, a) ==
    /\ IsRead(Log[g], "golden")
    /\ IsRead(Log[a], "tmp")
    /\ PathNo(g) = PathNo(a)
    /\ Log[g].k = Log[a].k

\* The most iterations the window loop of path number i can take: one for
\* each window of the longer side, and the one that finds both sides empty.
MostIterations(i) ==
    Max(WindowCount(Decoded(golden_before, paths[i])),
        WindowCount(Decoded(staged, paths[i]))) + 1

\* C19: the window loop of verify over one path terminates: a read takes at
\* most BYTE_LIMIT bytes off its side; every iteration that goes on to the
\* comparison has taken at least one byte off one side; the iteration that
\* finds both windows empty is the last thing verify does for the path; and
\* the loop takes no more iterations than the longer side has windows, and
\* one.
C19_WindowLoopEnds ==
    VerifyRan =>
      /\ \A e \in 1..Len(Log) :
           /\ Log[e].op = "read" => Log[e].num <= BYTE_LIMIT
           /\ Log[e].op \in {"read", "compare"} =>
                (Log[e].k >= 1 /\ Log[e].k <= MostIterations(PathNo(e)))
      /\ \A g, a \in 1..Len(Log) :
           SameIteration(g, a) =>
             /\ (\E c \in 1..Len(Log) :
                    /\ Log[c].op = "compare"
                    /\ PathNo(c) = PathNo(g)
                    /\ Log[c].k = Log[g].k)
                  => Log[g].num + Log[a].num >= 1
             /\ (Log[g].num = 0 /\ Log[a].num = 0) =>
                  /\ a = g + 1
                  /\ a < Len(Log) => PathNo(a + 1) = PathNo(a) + 1
      /\ last.res.kind = "ok" =>
           \A i \in Indices :
             \E g, a \in 1..Len(Log) :
               /\ SameIteration(g, a)
               /\ PathNo(g) = i
               /\ Log[g].num = 0
               /\ Log[a].num = 0

\* A verify that succeeded on a path of more than one window: two
\* iterations with a comparison, the second of a single byte, and the third
\* that found both sides empty.
C19_Witness ==
    /\ VerifyRan
    /\ last.res.kind = "ok"
    /\ \E g \in 1..Len(Log) :
         IsRead(Log[g], "golden") /\ Log[g].k = 1 /\ Log[g].num = BYTE_LIMIT
    /\ \E g \in 1..Len(Log) :
         IsRead(Log[g], "golden") /\ Log[g].k = 2 /\ Log[g].num = 1
    /\ \E g \in 1..Len(Log) :
         IsRead(Log[g], "tmp") /\ Log[g].k = 3 /\ Log[g].num = 0

\* ------------------------------------------- claims about the golden files
\* The paths the session registered.
Registered == {paths[i] : i \in Indices}

\* C20: a finalize in verify mode, whether it succeeds or fails, leaves
\* every golden file as it was; a finalize in update mode writes only the
\* golden files of registered paths, each as its staged file or not at all,
\* leaves every other golden file as it was, compares nothing and prints
\* nothing.
C20_FrameEffects ==
    /\ VerifyRan =>
         /\ golden = golden_before
         /\ \A e \in 1..Len(Log) : Log[e].op # "copy"
    /\ UpdateRan =>
         /\ \A p \in Paths \ Registered : golden[p] = golden_before[p]
         /\ \A p \in Registered :
              golden[p] = golden_before[p] \/ golden[p] = staged[p]
         /\ \A e \in 1..Len(Log) :
              Log[e].op = "copy" /\ Log[e].path \in Registered
         /\ printed = <<>>

\* An update that replaced the golden file of its one path while the golden
\* file of another path, not registered, was there.
C20_Witness ==
    /\ UpdateRan
    /\ last.res.kind = "ok"
    /\ Len(paths) = 1
    /\ golden[paths[1]] # golden_before[paths[1]]
    /\ \E p \in Paths \ Registered :
         golden_before[p].exists /\ golden_before[p].bytes # <<>>

====
